---- MODULE Spec2Model ----
(***************************************************************************)
(* A model of ChronoBox (src/src/index.ts): calendar arithmetic on a       *)
(* wrapped JavaScript Date, and the timezone helpers built on a            *)
(* civil-time rendering of an instant.                                     *)
(*                                                                         *)
(* Representation.  A JavaScript time value (milliseconds since            *)
(* 1970-01-01T00:00:00Z) is held as a record [d, ms]: the day number and   *)
(* the millisecond within that day, so that d * msPerDay + ms is the time  *)
(* value.  The split keeps every intermediate inside TLC's integers.       *)
(***************************************************************************)
EXTENDS Integers, Sequences, FiniteSets, TLC

msPerSecond == 1000 * 1
msPerMinute == 60 * msPerSecond
msPerHour   == 60 * msPerMinute
msPerDay    == 24 * msPerHour

TV(d, ms) == [d |-> d, ms |-> ms]

\* The time value of an Invalid Date.
NaN == [d |-> 0, ms |-> 0 - 1]

IsNaN(t) == t.ms < 0

\* day * msPerDay + time, for a time that may lie outside one day (MakeDate).
MakeDate(day, time) == TV(day + (time \div msPerDay), time % msPerDay)

TvLess(a, b) == a.d < b.d \/ (a.d = b.d /\ a.ms < b.ms)

TvLeq(a, b) == a = b \/ TvLess(a, b)

\* a + ms, for an ms of either sign.
TvPlus(a, ms) == MakeDate(a.d, a.ms + ms)

\* a - b in milliseconds, for instants less than three weeks apart.
TvDiff(a, b) == (a.d - b.d) * msPerDay + (a.ms - b.ms)

(***************************************************************************)
(* The calendar of ECMAScript Date objects (proleptic Gregorian), which    *)
(* every getter, setter and constructor of Date used by the source rests   *)
(* on.  Months are 0-based, as in Date.                                    *)
(***************************************************************************)
DayFromYear(y) ==
    365 * (y - 1970) + ((y - 1969) \div 4) - ((y - 1901) \div 100)
        + ((y - 1601) \div 400)

InLeapYear(y) == (y % 4 = 0) /\ ((y % 100 # 0) \/ (y % 400 = 0))

YearFromDay(n) ==
    LET e == 1970 + 400 * (n \div 146097) + ((n % 146097) * 400) \div 146097
    IN  CHOOSE y \in (e - 1)..(e + 1) :
            DayFromYear(y) <= n /\ n < DayFromYear(y + 1)

\* The number of days of the year that precede month m (0..12).
MonthStart(y, m) ==
    LET l == IF InLeapYear(y) THEN 1 ELSE 0
    IN  <<0, 31, 59 + l, 90 + l, 120 + l, 151 + l, 181 + l, 212 + l,
          243 + l, 273 + l, 304 + l, 334 + l, 365 + l>>[m + 1]

MonthFromDay(n) ==
    LET y == YearFromDay(n)
        k == n - DayFromYear(y)
    IN  CHOOSE m \in 0..11 : MonthStart(y, m) <= k /\ k < MonthStart(y, m + 1)

DateFromDay(n) ==
    LET y == YearFromDay(n)
    IN  n - DayFromYear(y) - MonthStart(y, MonthFromDay(n)) + 1

\* 0 = Sunday .. 6 = Saturday; 1970-01-01 was a Thursday.
WeekDay(n) == (n + 4) % 7

\* The day number of year/month/date, where month and date may lie outside
\* their ranges and carry over (Date's MakeDay).
MakeDay(year, month, date) ==
    LET ym == year + (month \div 12)
        mn == month % 12
    IN  DayFromYear(ym) + MonthStart(ym, mn) + date - 1

MakeTime(hour, min, sec, ms) ==
    hour * msPerHour + min * msPerMinute + sec * msPerSecond + ms

HourFromTime(ms) == ms \div msPerHour

MinFromTime(ms) == (ms \div msPerMinute) % 60

SecFromTime(ms) == (ms \div msPerSecond) % 60

MsFromTime(ms) == ms % msPerSecond

VARIABLES
    host,       \* the host's time zone, which Date's local getters and setters use
    heap,       \* the Date objects: "self" (allocated by the constructor),
                \* "arg" (the caller's Date handed to the constructor),
                \* "out" (the Date last returned by toDate)
    dateRef,    \* the object this.date refers to
    outRef,     \* the object the last toDate returned
    format,     \* this.format
    alive,      \* whether the last construction produced an instance
    made,       \* the instant the instance was constructed with
    origin,     \* how the receiver came to be: the call that returned it
    res,        \* the last call and what it returned or threw
    zone,       \* the zone whose civil time the formatter renders
    tzq,        \* the arguments of the timezone call in progress
    pc,         \* the position of the timezone call in progress
    lo,         \* findExactTransitionHour: start
    hi,         \* findExactTransitionHour: end
    startOffset,    \* findExactTransitionHour: the offset at startDate
    day,            \* findDSTTransitions: the loop counter
    previousOffset, \* findDSTTransitions: the offset of the day before
    foundTransitions,
    result,     \* findDSTTransitions: {start, end}
    calls,      \* the offset samples taken by the call in progress
    ret         \* what the last timezone call returned

calVars == <<heap, dateRef, outRef, format, alive, made, origin, res>>

tzVars == <<zone, tzq, pc, lo, hi, startOffset, day, previousOffset,
            foundTransitions, result, calls, ret>>

vars == <<host, calVars, tzVars>>

(***************************************************************************)
(* Time zones.  A zone is a base offset and a sequence of transitions in   *)
(* ascending order, each setting the offset from its instant on.  Offsets  *)
(* are milliseconds east of UTC: local = UTC + offset.                     *)
(***************************************************************************)
OffsetAt(z, t) ==
    LET past == {i \in 1..Len(z.trans) : TvLeq(z.trans[i].at, t)}
    IN  IF past = {} THEN z.base
        ELSE z.trans[CHOOSE i \in past : \A j \in past : j <= i].off

ZoneOffsets(z) == {z.base} \cup {z.trans[i].off : i \in 1..Len(z.trans)}

\* Date's LocalTime(t): the host's wall clock at instant t, as a time value.
LocalTime(t) == TvPlus(t, OffsetAt(host, t))

\* Date's UTC(t): the instant of a host wall-clock reading.  A reading that
\* occurs twice (clocks set back) or never (clocks set forward) is taken at
\* the offset in force before the transition.
UTC(tl) ==
    LET offs  == ZoneOffsets(host)
        valid == {o \in offs : OffsetAt(host, TvPlus(tl, 0 - o)) = o}
        top   == CHOOSE o \in offs : \A p \in offs : p <= o
    IN  IF valid # {}
        THEN TvPlus(tl, 0 - (CHOOSE o \in valid : \A p \in valid : p <= o))
        ELSE TvPlus(tl, 0 - OffsetAt(host, TvPlus(tl, 0 - top)))

(***************************************************************************)
(* The methods of Date the source calls.  Getters read the host's wall     *)
(* clock; a setter rebuilds the wall-clock reading and converts it back.   *)
(***************************************************************************)
getFullYear(t) == YearFromDay(LocalTime(t).d)

getMonth(t) == MonthFromDay(LocalTime(t).d)

getDate(t) == DateFromDay(LocalTime(t).d)

getDay(t) == WeekDay(LocalTime(t).d)

getHours(t) == HourFromTime(LocalTime(t).ms)

getMinutes(t) == MinFromTime(LocalTime(t).ms)

getSeconds(t) == SecFromTime(LocalTime(t).ms)

getMilliseconds(t) == MsFromTime(LocalTime(t).ms)

getUTCFullYear(t) == YearFromDay(t.d)

\* The last day a Date can hold: 100,000,000 days either side of 1970.
MaxDay == 100 * 1000 * 1000

\* Date's TimeClip: a time value beyond 8.64e15 ms either way is NaN.
TimeClip(t) ==
    IF \/ IsNaN(t)
       \/ t.d < 0 - MaxDay
       \/ t.d > MaxDay
       \/ (t.d = MaxDay /\ t.ms > 0)
    THEN NaN
    ELSE t

\* setHours(h, m, s, ms) and its shorter forms, each with the fields it keeps.
\* A setter leaves an Invalid Date invalid.
SetTime(t, h, m, s, ms) ==
    IF IsNaN(t) THEN NaN
    ELSE TimeClip(UTC(MakeDate(LocalTime(t).d, MakeTime(h, m, s, ms))))

setMilliseconds(t, ms) ==
    SetTime(t, getHours(t), getMinutes(t), getSeconds(t), ms)

setSeconds(t, s, ms) == SetTime(t, getHours(t), getMinutes(t), s, ms)

setMinutes(t, m, s, ms) == SetTime(t, getHours(t), m, s, ms)

setHours(t, h, m, s, ms) == SetTime(t, h, m, s, ms)

\* setFullYear / setMonth / setDate: the day is rebuilt, the time of day kept.
SetDay(t, y, m, d) ==
    IF IsNaN(t) THEN NaN
    ELSE TimeClip(UTC(MakeDate(MakeDay(y, m, d), LocalTime(t).ms)))

setDate(t, d) == SetDay(t, getFullYear(t), getMonth(t), d)

setMonth(t, m) == SetDay(t, getFullYear(t), m, getDate(t))

setMonthDate(t, m, d) == SetDay(t, getFullYear(t), m, d)

setFullYear(t, y) == SetDay(t, y, getMonth(t), getDate(t))

\* new Date(year, month, date, h, m, s, ms): host wall-clock fields.  A year
\* of 0..99 means 1900 + year.
NewDate(y, m, d, h, mi, s, ms) ==
    LET yr == IF 0 <= y /\ y <= 99 THEN 1900 + y ELSE y
    IN  TimeClip(UTC(MakeDate(MakeDay(yr, m, d), MakeTime(h, mi, s, ms))))

\* Date.UTC(year, month, date), with the same reading of a year of 0..99.
DateUTC(y, m, d) ==
    LET yr == IF 0 <= y /\ y <= 99 THEN 1900 + y ELSE y
    IN  TV(MakeDay(yr, m, d), 0)

Min(a, b) == IF a <= b THEN a ELSE b

Max(a, b) == IF a >= b THEN a ELSE b

(***************************************************************************)
(* ChronoBox.  A call returns a record: a new instance ("box"), a thrown   *)
(* ChronoBoxError ("error"), or a plain value.                             *)
(***************************************************************************)
TimeUnits ==
    {"MILLISECONDS", "SECONDS", "MINUTES", "HOURS", "DAYS", "WEEKS",
     "MONTHS", "YEARS"}

Box(t, f) == [kind |-> "box", date |-> t, format |-> f]

Thrown(msg) == [kind |-> "error", error |-> msg]

\* new ChronoBoxError(`Unsupported time unit: ${unit}`)
UnsupportedUnit(unit) == Thrown("Unsupported time unit: " \o unit)

\* Whether a constructor argument is truthy: undefined, 0, NaN and "" are not.
Truthy(input) ==
    CASE input.kind = "undefined" -> FALSE
      [] input.kind = "number" -> ~IsNaN(input.at) /\ input.at # TV(0, 0)
      [] input.kind = "string" -> input.text # ""
      [] OTHER -> TRUE

\* new Date(value): a number is the time value, a Date is copied, a string is
\* parsed (a string that is no date parses to NaN).
DateOfValue(input) ==
    CASE input.kind = "string" ->
             IF input.text = "iso" THEN input.at ELSE NaN
      [] OTHER -> input.at

\* The constructor without the test for an Invalid Date.
ConstructorUnchecked(input, f, now) ==
    Box(IF Truthy(input) THEN DateOfValue(input) ELSE now, f)

\* constructor(date, format), with `now` the clock's reading.
Constructor(input, f, now) ==
    LET d == IF Truthy(input) THEN DateOfValue(input) ELSE now
    IN  IF IsNaN(d)
        THEN Thrown("Failed to parse date: Invalid date input")
        ELSE Box(d, f)

\* new ChronoBox(someDate, format) inside a method: the Date is truthy.
Wrap(t, f) == Constructor([kind |-> "Date", at |-> t], f, NaN)

\* The last day of the month newDate lies in: new Date(y, m + 1, 0).getDate().
MaxDaysInNewMonth(t) ==
    getDate(NewDate(getFullYear(t), getMonth(t) + 1, 0, 0, 0, 0, 0))

\* The Date that add(amount, unit) builds, for a recognised unit.
AddedDate(date, amount, unit) ==
    CASE unit = "MILLISECONDS" ->
             setMilliseconds(date, getMilliseconds(date) + amount)
      [] unit = "SECONDS" ->
             setSeconds(date, getSeconds(date) + amount, getMilliseconds(date))
      [] unit = "MINUTES" ->
             setMinutes(date, getMinutes(date) + amount, getSeconds(date),
                        getMilliseconds(date))
      [] unit = "HOURS" ->
             setHours(date, getHours(date) + amount, getMinutes(date),
                      getSeconds(date), getMilliseconds(date))
      [] unit = "DAYS" -> setDate(date, getDate(date) + amount)
      [] unit = "WEEKS" -> setDate(date, getDate(date) + amount * 7)
      [] unit = "MONTHS" ->
             LET dayOfMonth == getDate(date)
                 first == setDate(date, 1)
                 moved == setMonth(first, getMonth(first) + amount)
             IN  setDate(moved, Min(dayOfMonth, MaxDaysInNewMonth(moved)))
      [] unit = "YEARS" ->
             LET dayOfMonth == getDate(date)
                 first == setDate(date, 1)
                 moved == setFullYear(first, getFullYear(first) + amount)
             IN  setDate(moved, Min(dayOfMonth, MaxDaysInNewMonth(moved)))

\* add with a default branch that returns the date as it is.
addLenient(date, f, amount, unit) ==
    IF unit \in TimeUnits
    THEN Wrap(AddedDate(date, amount, unit), f)
    ELSE Wrap(date, f)

\* add(amount, unit); the switch's default branch throws.
add(date, f, amount, unit) ==
    IF unit \in TimeUnits
    THEN Wrap(AddedDate(date, amount, unit), f)
    ELSE UnsupportedUnit(unit)

subtract(date, f, amount, unit) == add(date, f, 0 - amount, unit)

\* utils.isValidTimeUnit
isValidTimeUnit(unit) == unit \in TimeUnits

\* utils.truncateDate, for a recognised unit; weeks start on Monday.
truncateDate(date, unit) ==
    CASE unit = "MILLISECONDS" -> date
      [] unit = "SECONDS" -> setMilliseconds(date, 0)
      [] unit = "MINUTES" -> setSeconds(date, 0, 0)
      [] unit = "HOURS" -> setMinutes(date, 0, 0, 0)
      [] unit = "DAYS" -> setHours(date, 0, 0, 0, 0)
      [] unit = "WEEKS" ->
             LET wd == getDay(date)
                 monday == getDate(date) - wd + (IF wd = 0 THEN 0 - 6 ELSE 1)
             IN  setHours(setDate(date, monday), 0, 0, 0, 0)
      [] unit = "MONTHS" -> setHours(setDate(date, 1), 0, 0, 0, 0)
      [] unit = "YEARS" -> setHours(setMonthDate(date, 0, 1), 0, 0, 0, 0)

\* The length of a fixed-duration unit in milliseconds.
UnitMs(unit) ==
    CASE unit = "MILLISECONDS" -> 1
      [] unit = "SECONDS" -> 1000
      [] unit = "MINUTES" -> 1000 * 60
      [] unit = "HOURS" -> 1000 * 60 * 60
      [] unit = "DAYS" -> 1000 * 60 * 60 * 24
      [] unit = "WEEKS" -> 1000 * 60 * 60 * 24 * 7

\* a - b as a duration: whole days and the milliseconds beyond them.
Dur(a, b) == MakeDate(a.d - b.d, a.ms - b.ms)

DurAbs(u) == IF u.d < 0 THEN MakeDate(0 - u.d, 0 - u.ms) ELSE u

FixedUnits ==
    {"MILLISECONDS", "SECONDS", "MINUTES", "HOURS", "DAYS", "WEEKS"}

\* diff rounding a fixed-unit quotient down to a whole number of units.
diffFloored(date, other, unit) ==
    IF ~isValidTimeUnit(unit) THEN UnsupportedUnit(unit)
    ELSE CASE IsNaN(other) /\ unit \in TimeUnits -> [kind |-> "nan"]
           [] unit = "WEEKS" ->
                  [kind |-> "quotient",
                   diffMs |-> TV(Dur(date, other).d - (Dur(date, other).d % 7), 0),
                   per |-> UnitMs(unit)]
           [] unit \in FixedUnits ->
                  [kind |-> "quotient",
                   diffMs |-> TV(Dur(date, other).d,
                                 Dur(date, other).ms
                                     - (Dur(date, other).ms % UnitMs(unit))),
                   per |-> UnitMs(unit)]
           [] unit = "MONTHS" ->
                  [kind |-> "integer",
                   n |-> (getFullYear(date) - getFullYear(other)) * 12
                           + (getMonth(date) - getMonth(other))]
           [] unit = "YEARS" ->
                  [kind |-> "integer",
                   n |-> getFullYear(date) - getFullYear(other)]
           [] OTHER -> UnsupportedUnit(unit)

\* diff counting a month or year only once the day of the month is reached.
diffElapsed(date, other, unit) ==
    IF ~isValidTimeUnit(unit) THEN UnsupportedUnit(unit)
    ELSE CASE IsNaN(other) /\ unit \in TimeUnits -> [kind |-> "nan"]
           [] unit \in FixedUnits ->
                  [kind |-> "quotient", diffMs |-> Dur(date, other),
                   per |-> UnitMs(unit)]
           [] unit = "MONTHS" ->
                  [kind |-> "integer",
                   n |-> (getFullYear(date) - getFullYear(other)) * 12
                           + (getMonth(date) - getMonth(other))
                           - (IF getDate(date) < getDate(other) THEN 1 ELSE 0)]
           [] unit = "YEARS" ->
                  [kind |-> "integer",
                   n |-> getFullYear(date) - getFullYear(other)
                           - (IF getMonth(date) < getMonth(other) THEN 1 ELSE 0)]
           [] OTHER -> UnsupportedUnit(unit)

\* diff(other, unit): the quotient diffMs / per is returned unrounded.
diff(date, other, unit) ==
    IF ~isValidTimeUnit(unit) THEN UnsupportedUnit(unit)
    ELSE CASE IsNaN(other) /\ unit \in TimeUnits -> [kind |-> "nan"]
           [] unit \in FixedUnits ->
                  [kind |-> "quotient", diffMs |-> Dur(date, other),
                   per |-> UnitMs(unit)]
           [] unit = "MONTHS" ->
                  [kind |-> "integer",
                   n |-> (getFullYear(date) - getFullYear(other)) * 12
                           + (getMonth(date) - getMonth(other))]
           [] unit = "YEARS" ->
                  [kind |-> "integer",
                   n |-> getFullYear(date) - getFullYear(other)]
           [] OTHER -> UnsupportedUnit(unit)

getComponents(date) ==
    [kind |-> "components", year |-> getFullYear(date),
     month |-> getMonth(date) + 1, day |-> getDate(date),
     hours |-> getHours(date), minutes |-> getMinutes(date),
     seconds |-> getSeconds(date), milliseconds |-> getMilliseconds(date)]

isValid(date) == [kind |-> "boolean", b |-> ~IsNaN(date)]

withFormat(date, newFormat) == Wrap(date, newFormat)

\* isAfter / isBefore: sign is 1 for after, -1 for before.  truncateDate
\* throws for a unit it does not know.
Compare(date, other, granularity, sign) ==
    IF granularity = "MILLISECONDS"
    THEN [kind |-> "boolean",
          b |-> IF sign = 1 THEN TvLess(other, date) ELSE TvLess(date, other)]
    ELSE IF ~isValidTimeUnit(granularity) THEN UnsupportedUnit(granularity)
    ELSE LET a == truncateDate(date, granularity)
             b == truncateDate(other, granularity)
         IN  [kind |-> "boolean",
              b |-> IF sign = 1 THEN TvLess(b, a) ELSE TvLess(a, b)]

\* isAfter with >= in place of >.
isAfterOrSame(date, other, granularity) ==
    IF ~isValidTimeUnit(granularity) THEN UnsupportedUnit(granularity)
    ELSE [kind |-> "boolean",
          b |-> TvLeq(truncateDate(other, granularity),
                      truncateDate(date, granularity))]

isAfter(date, other, granularity) == Compare(date, other, granularity, 1)

isBefore(date, other, granularity) == Compare(date, other, granularity, 0 - 1)

\* fromNow(referenceDate), with `now` the reference or the clock's reading.
fromNow(date, now) ==
    LET diffMs == Dur(now, date)
        isFuture == diffMs.d < 0
        a == DurAbs(diffMs)
        months == diff(date, now, "MONTHS").n
        years == diff(date, now, "YEARS").n
        value ==
            IF a.d = 0 /\ a.ms < msPerMinute THEN a.ms \div msPerSecond
            ELSE IF a.d = 0 /\ a.ms < msPerHour THEN a.ms \div msPerMinute
            ELSE IF a.d = 0 THEN a.ms \div msPerHour
            ELSE IF a.d < 7 THEN a.d
            ELSE IF a.d < 30 THEN a.d \div 7
            ELSE IF a.d < 365 THEN (IF months < 0 THEN 0 - months ELSE months)
            ELSE (IF years < 0 THEN 0 - years ELSE years)
        unit ==
            IF a.d = 0 /\ a.ms < msPerMinute THEN "second"
            ELSE IF a.d = 0 /\ a.ms < msPerHour THEN "minute"
            ELSE IF a.d = 0 THEN "hour"
            ELSE IF a.d < 7 THEN "day"
            ELSE IF a.d < 30 THEN "week"
            ELSE IF a.d < 365 THEN "month"
            ELSE "year"
    IN  IF value = 0 THEN [kind |-> "text", text |-> "just now"]
        ELSE [kind |-> "text",
              text |-> IF isFuture THEN "in n unit" ELSE "n unit ago",
              n |-> value, unit |-> unit, plural |-> (value # 1)]

startOf(date, f, unit) ==
    IF ~isValidTimeUnit(unit) THEN UnsupportedUnit(unit)
    ELSE Wrap(truncateDate(date, unit), f)

\* endOf whose week ends five days after it starts.
endOfShortWeek(date, f, unit) ==
    IF unit = "WEEKS"
    THEN LET weekStart == truncateDate(date, "WEEKS")
             weekEnd == setDate(weekStart, getDate(weekStart) + 5)
         IN  Wrap(setHours(weekEnd, 23, 59, 59, 999), f)
    ELSE IF ~isValidTimeUnit(unit) THEN UnsupportedUnit(unit)
    ELSE Wrap(date, f)

endOf(date, f, unit) ==
    IF ~isValidTimeUnit(unit) THEN UnsupportedUnit(unit)
    ELSE CASE unit = "MILLISECONDS" -> Wrap(date, f)
           [] unit = "SECONDS" -> Wrap(setMilliseconds(date, 999), f)
           [] unit = "MINUTES" -> Wrap(setSeconds(date, 59, 999), f)
           [] unit = "HOURS" -> Wrap(setMinutes(date, 59, 59, 999), f)
           [] unit = "DAYS" -> Wrap(setHours(date, 23, 59, 59, 999), f)
           [] unit = "WEEKS" ->
                  LET weekStart == truncateDate(date, "WEEKS")
                      weekEnd == setDate(weekStart, getDate(weekStart) + 6)
                  IN  Wrap(setHours(weekEnd, 23, 59, 59, 999), f)
           [] unit = "MONTHS" ->
                  Wrap(NewDate(getFullYear(date), getMonth(date) + 1, 0,
                               23, 59, 59, 999), f)
           [] unit = "YEARS" ->
                  Wrap(NewDate(getFullYear(date), 11, 31, 23, 59, 59, 999), f)
           [] OTHER -> UnsupportedUnit(unit)

(***************************************************************************)
(* The inputs the model draws from.                                        *)
(***************************************************************************)
\* The instant with the given UTC fields.
Civil(y, m, d, h, mi, s, ms) == TV(MakeDay(y, m, d), MakeTime(h, mi, s, ms))

UTCZone == [base |-> 0, trans |-> <<>>]

\* A host five hours behind UTC whose clocks go forward one hour at 07:00Z on
\* the second Sunday of March and back at 06:00Z on the first Sunday of
\* November (the rule of America/New_York), for 2023 and 2024.
EasternZone ==
    [base |-> 0 - 5 * msPerHour,
     trans |-> << [at |-> Civil(2023, 2, 12, 7, 0, 0, 0), off |-> 0 - 4 * msPerHour],
                  [at |-> Civil(2023, 10, 5, 6, 0, 0, 0), off |-> 0 - 5 * msPerHour],
                  [at |-> Civil(2024, 2, 10, 7, 0, 0, 0), off |-> 0 - 4 * msPerHour],
                  [at |-> Civil(2024, 10, 3, 6, 0, 0, 0), off |-> 0 - 5 * msPerHour] >>]

HostZones == {UTCZone, EasternZone}

Instants ==
    { Civil(2024, 0, 31, 12, 30, 45, 500),
      Civil(2024, 0, 15, 0, 0, 0, 0),
      Civil(2024, 1, 29, 23, 59, 59, 999),
      Civil(2024, 2, 9, 7, 30, 0, 0),
      Civil(2024, 2, 10, 6, 30, 0, 0),
      Civil(2024, 2, 31, 0, 0, 0, 0),
      Civil(2024, 3, 30, 18, 0, 0, 1),
      Civil(2024, 6, 31, 12, 0, 0, 0),
      Civil(2024, 10, 3, 5, 30, 0, 0),
      Civil(2024, 10, 3, 6, 30, 0, 0),
      Civil(2024, 11, 31, 23, 59, 59, 999),
      Civil(2023, 0, 1, 0, 0, 0, 0),
      Civil(2023, 0, 31, 9, 15, 0, 0),
      Civil(2023, 1, 28, 12, 0, 0, 0),
      Civil(2023, 11, 31, 12, 0, 0, 0),
      Civil(2000, 1, 29, 12, 0, 0, 0),
      Civil(1970, 0, 1, 0, 0, 0, 0),
      Civil(50, 1, 15, 12, 0, 0, 0),
      Civil(4, 1, 29, 12, 0, 0, 0),
      Civil(0, 0, 31, 12, 0, 0, 0) }

\* The dates a call is given to compare with, and the clock's readings.
Others ==
    { Civil(2024, 0, 31, 12, 30, 45, 0),
      Civil(2023, 10, 15, 12, 0, 0, 0),
      Civil(2024, 1, 29, 23, 59, 59, 999) }

\* The reference dates fromNow is given: those above, and one thirty days
\* after the first instant of a month.
References == Others \cup {Civil(2023, 0, 31, 0, 0, 0, 0)}

\* The clock's readings when a constructor runs.
Clock == {Civil(2024, 0, 10, 0, 0, 0, 0), Civil(2024, 5, 1, 8, 0, 0, 0)}

\* The amounts a call is given: a run around zero and the leaps of a year.
MaxAmount == 2

Amounts == (0 - MaxAmount)..MaxAmount \cup {0 - 13, 12, 25}

Units == TimeUnits \cup {"unsupported", "null"}

Formats == {"YYYY-MM-DD", "MM/DD/YYYY"}

\* What a caller may hand the constructor: nothing, a number, a string (the
\* ISO text of an instant, text that is no date, or the empty string), or a
\* Date (which may be an Invalid Date).
CtorInputs ==
    {[kind |-> "undefined", at |-> NaN]}
    \cup {[kind |-> "number", at |-> t] : t \in Instants \cup {NaN}}
    \cup {[kind |-> "string", text |-> "iso", at |-> t] : t \in Instants}
    \cup {[kind |-> "string", text |-> x, at |-> NaN] : x \in {"", "not a date"}}
    \cup {[kind |-> "Date", at |-> t] : t \in Instants \cup {NaN}}

\* What a caller sets a Date it holds to.
MutValues == {Civil(1999, 11, 31, 23, 0, 0, 0)}

NoObjects == [o \in {"self", "arg", "out", "tmp"} |-> NaN]

TzIdle ==
    /\ zone = UTCZone
    /\ tzq = [op |-> "none"]
    /\ pc = "idle"
    /\ lo = NaN
    /\ hi = NaN
    /\ startOffset = [num |-> 0, den |-> msPerMinute]
    /\ day = 0
    /\ previousOffset = [num |-> 0, den |-> msPerMinute]
    /\ foundTransitions = 0
    /\ result = [start |-> NaN, end |-> NaN]
    /\ calls = 0
    /\ ret = [kind |-> "none"]

(***************************************************************************)
(* The instance and the calls on it.                                       *)
(***************************************************************************)
\* this.date
This == heap[dateRef]

\* The object this.date is set to by `date ? new Date(date) : new Date()`:
\* a Date of the constructor's own, whatever object the caller handed in.
DateField(input) == "self"

\* The object `new Date(this.date)` yields at the head of a method: a copy.
NewDateCopy(ref) == "tmp"

\* toDate returning this.date itself.
toDateShared(ref) == ref

\* The object toDate returns: new Date(this.date), a copy.
toDate(ref) == "out"

\* The heap once a method has written v to the object at ref and returned:
\* the method's own copy is dropped.
Written(h, ref, v) == [[h EXCEPT ![ref] = v] EXCEPT !["tmp"] = NaN]

\* No call's outcome is held by the caller.
Idle == res.op = "none"

Construct(input, f, now) ==
    LET r == Constructor(input, f, now)
        ref == DateField(input)
        h0 == [NoObjects EXCEPT !["arg"] =
                  IF input.kind = "Date" THEN input.at ELSE NaN]
    IN  /\ Idle
        /\ res' = [op |-> "new", input |-> input, now |-> now, out |-> r]
        /\ alive' = (r.kind = "box")
        /\ format' = f
        /\ dateRef' = IF r.kind = "box" /\ input.kind = "Date" THEN ref ELSE "self"
        /\ outRef' = "out"
        /\ heap' = IF r.kind = "box"
                   THEN [h0 EXCEPT ![dateRef'] = r.date]
                   ELSE h0
        /\ made' = IF r.kind = "box" THEN r.date ELSE NaN
        /\ origin' = [op |-> "new"]
        /\ UNCHANGED <<host, tzVars>>

\* A call that leaves every object as it is.
Reads(r) ==
    /\ Idle
    /\ alive
    /\ res' = r
    /\ UNCHANGED <<host, heap, dateRef, outRef, format, alive, made, origin, tzVars>>

\* A call that works on its own copy of this.date, leaving v in it.
Works(r, v) ==
    /\ Idle
    /\ alive
    /\ res' = r
    /\ heap' = Written(heap, NewDateCopy(dateRef), v)
    /\ UNCHANGED <<host, dateRef, outRef, format, alive, made, origin, tzVars>>

Add(amount, unit) ==
    LET r == add(This, format, amount, unit)
    IN  Works([op |-> "add", on |-> This, amount |-> amount, unit |-> unit,
               out |-> r],
              IF r.kind = "box" THEN r.date ELSE This)

Subtract(amount, unit) ==
    LET r == subtract(This, format, amount, unit)
    IN  Works([op |-> "subtract", on |-> This, amount |-> amount,
               unit |-> unit, out |-> r],
              IF r.kind = "box" THEN r.date ELSE This)

\* The chained call this.add(amount, unit).subtract(amount, unit).
AddSubtract(amount, unit) ==
    /\ Idle
    /\ \E mid \in {add(This, format, amount, unit)} :
        \E r \in {IF mid.kind = "box"
                  THEN subtract(mid.date, mid.format, amount, unit)
                  ELSE mid} :
            Works([op |-> "add.subtract", on |-> This, amount |-> amount,
                   unit |-> unit, mid |-> mid, out |-> r],
                  IF mid.kind = "box" THEN mid.date ELSE This)

Diff(other, unit) ==
    Reads([op |-> "diff", on |-> This, other |-> other, unit |-> unit,
           out |-> diff(This, other, unit)])

GetComponents ==
    Reads([op |-> "getComponents", on |-> This, out |-> getComponents(This)])

IsValid == Reads([op |-> "isValid", on |-> This, out |-> isValid(This)])

ToDate ==
    /\ Idle
    /\ alive
    /\ outRef' = toDate(dateRef)
    /\ heap' = [heap EXCEPT ![outRef'] = This]
    /\ res' = [op |-> "toDate", on |-> This, out |-> [kind |-> "Date", at |-> This]]
    /\ UNCHANGED <<host, dateRef, format, alive, made, origin, tzVars>>

WithFormat(f) ==
    Reads([op |-> "withFormat", on |-> This, out |-> withFormat(This, f)])

IsAfter(other, g) ==
    Reads([op |-> "isAfter", on |-> This, other |-> other, unit |-> g,
           out |-> isAfter(This, other, g)])

IsBefore(other, g) ==
    Reads([op |-> "isBefore", on |-> This, other |-> other, unit |-> g,
           out |-> isBefore(This, other, g)])

FromNow(now) ==
    Reads([op |-> "fromNow", on |-> This, other |-> now,
           out |-> fromNow(This, now)])

StartOf(unit) ==
    LET r == startOf(This, format, unit)
    IN  Works([op |-> "startOf", on |-> This, unit |-> unit, out |-> r],
              IF r.kind = "box" THEN r.date ELSE This)

EndOf(unit) ==
    LET r == endOf(This, format, unit)
    IN  Works([op |-> "endOf", on |-> This, unit |-> unit, out |-> r],
              IF r.kind = "box" THEN r.date ELSE This)

\* The caller sets the Date it handed to the constructor.
MutateArg(v) ==
    /\ Idle
    /\ alive
    /\ ~IsNaN(heap["arg"])
    /\ heap' = [heap EXCEPT !["arg"] = v]
    /\ res' = [op |-> "mutateArg", on |-> This, at |-> v]
    /\ UNCHANGED <<host, dateRef, outRef, format, alive, made, origin, tzVars>>

\* The caller sets the Date toDate returned.
MutateOut(v) ==
    /\ Idle
    /\ alive
    /\ ~IsNaN(heap[outRef])
    /\ heap' = [heap EXCEPT ![outRef] = v]
    /\ res' = [op |-> "mutateOut", on |-> This, at |-> v]
    /\ UNCHANGED <<host, dateRef, outRef, format, alive, made, origin, tzVars>>

\* The caller lets go of the last call's outcome.
Forget ==
    /\ ~Idle
    /\ res' = [op |-> "none"]
    /\ UNCHANGED <<host, heap, dateRef, outRef, format, alive, made, origin, tzVars>>

\* An instance built from a Date of the caller's.
Init ==
    /\ host \in HostZones
    /\ \E t \in Instants :
          /\ dateRef = DateField([kind |-> "Date", at |-> t])
          /\ heap = [[NoObjects EXCEPT !["arg"] = t] EXCEPT ![dateRef] = t]
          /\ made = t
    /\ res = [op |-> "none"]
    /\ outRef = "out"
    /\ format = "YYYY-MM-DD"
    /\ alive = TRUE
    /\ origin = [op |-> "new"]
    /\ TzIdle

Next ==
    \/ \E n \in Amounts, u \in Units : Add(n, u)
    \/ \E n \in Amounts, u \in Units : Subtract(n, u)
    \/ \E n \in Amounts, u \in Units : AddSubtract(n, u)
    \/ \E o \in Others, u \in Units : Diff(o, u)
    \/ GetComponents
    \/ IsValid
    \/ ToDate
    \/ \E f \in Formats : WithFormat(f)
    \/ \E o \in Others, u \in Units : IsAfter(o, u)
    \/ \E o \in Others, u \in Units : IsBefore(o, u)
    \/ \E o \in References : FromNow(o)
    \/ \E u \in Units : StartOf(u)
    \/ \E u \in Units : EndOf(u)
    \/ \E v \in MutValues : MutateArg(v)
    \/ \E v \in MutValues : MutateOut(v)
    \/ Forget

Spec == Init /\ [][Next]_vars

\* Construction alone: a caller that builds instances from whatever it has.
InitNew ==
    /\ host \in HostZones
    /\ heap = NoObjects
    /\ made = NaN
    /\ res = [op |-> "none"]
    /\ dateRef = "self"
    /\ outRef = "out"
    /\ format = "YYYY-MM-DD"
    /\ alive = FALSE
    /\ origin = [op |-> "new"]
    /\ TzIdle

NextNew ==
    \/ \E i \in CtorInputs, f \in Formats, now \in Clock : Construct(i, f, now)
    \/ Forget

SpecNew == InitNew /\ [][NextNew]_vars

(***************************************************************************)
(* Chains of calls: the caller goes on with the instance a call returned.  *)
(* The dates reach to the ends of what a Date can hold.                    *)
(***************************************************************************)
\* The calls that led from a constructed instance to the receiver.
MaxChain == 2

Depth == IF origin.op = "new" THEN 0 ELSE origin.depth

FarAmount == 300 * 1000

ChainAmounts == {1, FarAmount}

ChainUnits == {"DAYS", "YEARS"}

\* A date of 2024, and noon of the last and of the first whole day a Date
\* can hold.
ChainInstants ==
    { Civil(2024, 0, 31, 12, 30, 45, 500),
      TV(MaxDay - 1, 12 * msPerHour),
      TV(1 - MaxDay, 12 * msPerHour) }

ChainInputs ==
    {[kind |-> "undefined", at |-> NaN]}
    \cup {[kind |-> "Date", at |-> t] : t \in ChainInstants \cup {NaN}}

\* The caller takes the instance the last call returned as its receiver.
Continue ==
    /\ alive
    /\ res.op \in {"add", "subtract", "startOf", "endOf", "withFormat"}
    /\ res.out.kind = "box"
    /\ Depth < MaxChain
    /\ heap' = [NoObjects EXCEPT !["self"] = res.out.date]
    /\ dateRef' = "self"
    /\ outRef' = "out"
    /\ format' = res.out.format
    /\ made' = res.out.date
    /\ origin' = [op |-> res.op, depth |-> Depth + 1]
    /\ res' = [op |-> "none"]
    /\ UNCHANGED <<host, alive, tzVars>>

InitChain == InitNew

NextChain ==
    \/ \E i \in ChainInputs, f \in Formats, now \in Clock : Construct(i, f, now)
    \/ \E a \in ChainAmounts, u \in ChainUnits : Add(a, u)
    \/ \E a \in ChainAmounts, u \in ChainUnits : Subtract(a, u)
    \/ \E u \in ChainUnits : StartOf(u)
    \/ \E u \in ChainUnits : EndOf(u)
    \/ \E f \in Formats : WithFormat(f)
    \/ IsValid
    \/ Continue
    \/ Forget

SpecChain == InitChain /\ [][NextChain]_vars

(***************************************************************************)
(* The timezone helpers.  Intl.DateTimeFormat("en-US", {timeZone, year,    *)
(* month, day, hour, minute, second: "numeric", hour12: false}) renders    *)
(* the civil fields of an instant in a zone, to the second, hours 0..23;   *)
(* new Date(text + " GMT") reads such fields back as if they were UTC.     *)
(***************************************************************************)
\* formatter.format(date): the zone's civil fields; milliseconds are dropped.
Format(t, z) ==
    LET w == TvPlus(t, OffsetAt(z, t))
    IN  [year |-> YearFromDay(w.d), month |-> MonthFromDay(w.d) + 1,
         day |-> DateFromDay(w.d), hour |-> HourFromTime(w.ms),
         minute |-> MinFromTime(w.ms), second |-> SecFromTime(w.ms)]

\* new Date(text + " GMT"): the fields taken as a UTC reading.
ParseGMT(f) ==
    TV(MakeDay(f.year, f.month - 1, f.day),
       MakeTime(f.hour, f.minute, f.second, 0))

\* The JavaScript number num / den, kept exact.
Quotient(num, den) == [num |-> num, den |-> den]

IsWhole(q) == q.num % q.den = 0

\* getTimezoneOffsetMinutes with the operands of the subtraction exchanged.
getTimezoneOffsetMinutesSwapped(dateObj, timezone) ==
    LET zonedTime == ParseGMT(Format(dateObj, timezone))
        utcTime   == ParseGMT(Format(dateObj, UTCZone))
    IN  Quotient(TvDiff(zonedTime, utcTime), msPerMinute)

\* getTimezoneOffsetMinutes(date, timezone)
getTimezoneOffsetMinutes(dateObj, timezone) ==
    LET zonedTime == ParseGMT(Format(dateObj, timezone))
        utcTime   == ParseGMT(Format(dateObj, UTCZone))
    IN  Quotient(TvDiff(utcTime, zonedTime), msPerMinute)

\* convertTimezone(date, fromTimezone, toTimezone): the Date is rebuilt from
\* its host wall-clock fields, rendered in the source zone and re-read, then
\* rendered in the target zone and re-read.
convertTimezone(dateObj, fromTimezone, toTimezone) ==
    LET rebuilt == NewDate(getFullYear(dateObj), getMonth(dateObj),
                           getDate(dateObj), getHours(dateObj),
                           getMinutes(dateObj), getSeconds(dateObj),
                           getMilliseconds(dateObj))
        fromDate == ParseGMT(Format(rebuilt, fromTimezone))
    IN  ParseGMT(Format(fromDate, toTimezone))

\* A midpoint one millisecond below the upper bound.
MidNearEnd(start, end) == TvPlus(end, 0 - 1)

\* Math.floor((start + end) / 2)
Mid(start, end) ==
    LET days == start.d + end.d
        time == start.ms + end.ms
    IN  IF days % 2 = 0
        THEN MakeDate(days \div 2, time \div 2)
        ELSE MakeDate((days - 1) \div 2, (msPerDay + time) \div 2)

\* The loop test of findExactTransitionHour: end - start > 60000.
Apart(start, end) == TvLess(TvPlus(start, msPerMinute), end)

\* The loop body moving the other bound.
NarrowedSwapped(start, end, first, timezone) ==
    LET mid == Mid(start, end)
        midOffset == getTimezoneOffsetMinutes(mid, timezone)
    IN  IF midOffset = first THEN <<start, mid>> ELSE <<mid, end>>

\* One pass of the loop of findExactTransitionHour: the new <<start, end>>.
Narrowed(start, end, first, timezone) ==
    LET mid == Mid(start, end)
        midOffset == getTimezoneOffsetMinutes(mid, timezone)
    IN  IF midOffset = first THEN <<mid, end>> ELSE <<start, mid>>

\* findExactTransitionHour returning the midpoint of the last bracket.
FoundMidway(start, end) == Mid(start, end)

\* findExactTransitionHour returning new Date(start).
FoundStart(start, end) == start

\* What findExactTransitionHour returns once the loop is over: new Date(end).
Found(start, end) == end

\* isInDST taking the January anchor for the larger one.
isInDSTJanuary(dateObj, timezone) ==
    LET janDate == NewDate(getFullYear(dateObj), 0, 1, 0, 0, 0, 0)
        janOffset == getTimezoneOffsetMinutes(janDate, timezone)
        julyDate == NewDate(getFullYear(dateObj), 6, 1, 0, 0, 0, 0)
        julyOffset == getTimezoneOffsetMinutes(julyDate, timezone)
        dateOffset == getTimezoneOffsetMinutes(dateObj, timezone)
    IN  IF janOffset = julyOffset
        THEN FALSE
        ELSE dateOffset.num = janOffset.num

\* isInDST without the early return for equal anchors.
isInDSTUnguarded(dateObj, timezone) ==
    LET janDate == NewDate(getFullYear(dateObj), 0, 1, 0, 0, 0, 0)
        janOffset == getTimezoneOffsetMinutes(janDate, timezone)
        julyDate == NewDate(getFullYear(dateObj), 6, 1, 0, 0, 0, 0)
        julyOffset == getTimezoneOffsetMinutes(julyDate, timezone)
        dateOffset == getTimezoneOffsetMinutes(dateObj, timezone)
    IN  dateOffset.num = Max(janOffset.num, julyOffset.num)

\* isInDST(date, timezone); the anchors are the host's local midnights of
\* January 1 and July 1 of the date's local year.
isInDST(dateObj, timezone) ==
    LET janDate == NewDate(getFullYear(dateObj), 0, 1, 0, 0, 0, 0)
        janOffset == getTimezoneOffsetMinutes(janDate, timezone)
        julyDate == NewDate(getFullYear(dateObj), 6, 1, 0, 0, 0, 0)
        julyOffset == getTimezoneOffsetMinutes(julyDate, timezone)
        dateOffset == getTimezoneOffsetMinutes(dateObj, timezone)
    IN  IF janOffset = julyOffset
        THEN FALSE
        ELSE dateOffset.num = Max(janOffset.num, julyOffset.num)

\* findDSTTransitions without the early return.
FastPathNever(year, timezone) == FALSE

\* findDSTTransitions: whether the January and July samples send it back at
\* once with the empty result.
FastPath(year, timezone) ==
    getTimezoneOffsetMinutes(DateUTC(year, 0, 1), timezone)
        = getTimezoneOffsetMinutes(DateUTC(year, 6, 1), timezone)

\* findDSTTransitions filling `end` before `start`.
RecordedEndFirst(r, transitionDate) ==
    IF IsNaN(r.end) THEN [r EXCEPT !.end = transitionDate]
    ELSE IF IsNaN(r.start) THEN [r EXCEPT !.start = transitionDate]
    ELSE r

\* findDSTTransitions: the result once a transition date has been found.
Recorded(r, transitionDate) ==
    IF IsNaN(r.start) THEN [r EXCEPT !.start = transitionDate]
    ELSE IF IsNaN(r.end) THEN [r EXCEPT !.end = transitionDate]
    ELSE r

\* The loop of findDSTTransitions without the break at the end of the year.
ScanningAll(year, d) == d <= 366

\* findDSTTransitions: whether the loop goes round for `day`.
Scanning(year, d) == d <= 366 /\ ~(getUTCFullYear(DateUTC(year, 0, d)) > year)

NoWindow == [start |-> NaN, end |-> NaN]

(***************************************************************************)
(* The zones and arguments of the timezone calls.                          *)
(***************************************************************************)
Zone(base, trans) == [base |-> base, trans |-> trans]

Shift(at, off) == [at |-> at, off |-> off]

\* Zones without transitions: five hours behind, five and a half ahead, and
\* 44 minutes 30 seconds behind (Africa/Monrovia until 1972).
FixedZones ==
    { UTCZone,
      Zone(0 - 5 * msPerHour, <<>>),
      Zone(5 * msPerHour + 30 * msPerMinute, <<>>),
      Zone(0 - (44 * msPerMinute + 30 * msPerSecond), <<>>) }

\* A zone ten hours ahead whose clocks go forward one hour from October to
\* April (the rule of Australia/Sydney), for 2023 and 2024.
SydneyZone ==
    Zone(11 * msPerHour,
         << Shift(Civil(2023, 3, 1, 16, 0, 0, 0), 10 * msPerHour),
            Shift(Civil(2023, 8, 30, 16, 0, 0, 0), 11 * msPerHour),
            Shift(Civil(2024, 3, 6, 16, 0, 0, 0), 10 * msPerHour),
            Shift(Civil(2024, 9, 5, 16, 0, 0, 0), 11 * msPerHour) >>)

\* Zones whose offset changes at exactly one instant.
OneShiftZones ==
    { Zone(0, << Shift(Civil(2024, 2, 10, 7, 0, 0, 0), msPerHour) >>),
      Zone(0 - 3 * msPerHour,
           << Shift(Civil(2024, 2, 10, 13, 27, 31, 123), 0 - 2 * msPerHour) >>),
      Zone(2 * msPerHour,
           << Shift(Civil(2024, 2, 10, 0, 0, 0, 1), msPerHour) >>),
      Zone(0, << Shift(Civil(2024, 0, 1, 12, 0, 0, 0), msPerHour) >>) }

\* Zones with other placements of offset changes: three in a year, two of
\* them on adjacent days; two on one day; one on December 31; a suspension
\* of the offset that is over by July; and one, five hours behind UTC, whose
\* first change falls on January 1 in UTC and on December 31 by its own clock.
ManyShiftZones ==
    { Zone(0, << Shift(Civil(2024, 2, 10, 7, 0, 0, 0), msPerHour),
                 Shift(Civil(2024, 2, 11, 7, 0, 0, 0), 2 * msPerHour),
                 Shift(Civil(2024, 10, 3, 6, 0, 0, 0), 0) >>),
      Zone(0, << Shift(Civil(2024, 2, 10, 3, 0, 0, 0), msPerHour),
                 Shift(Civil(2024, 2, 10, 15, 0, 0, 0), 2 * msPerHour),
                 Shift(Civil(2024, 9, 27, 1, 0, 0, 0), msPerHour) >>),
      Zone(0, << Shift(Civil(2024, 5, 1, 0, 0, 0, 0), msPerHour),
                 Shift(Civil(2024, 11, 31, 12, 0, 0, 0), 0) >>),
      Zone(msPerHour,
           << Shift(Civil(2024, 2, 10, 2, 0, 0, 0), 0),
              Shift(Civil(2024, 3, 14, 2, 0, 0, 0), msPerHour) >>),
      Zone(0 - 5 * msPerHour,
           << Shift(Civil(2024, 0, 1, 2, 0, 0, 0), 0 - 4 * msPerHour),
              Shift(Civil(2024, 10, 3, 6, 0, 0, 0), 0 - 5 * msPerHour) >>) }

Zones ==
    FixedZones \cup {EasternZone, SydneyZone} \cup OneShiftZones
        \cup ManyShiftZones

\* The instants the timezone calls are asked about.
TzInstants ==
    { Civil(2023, 0, 15, 12, 0, 0, 0),
      Civil(2023, 6, 15, 12, 0, 0, 0),
      Civil(2023, 11, 15, 0, 20, 10, 5),
      Civil(2024, 0, 1, 2, 0, 0, 0),
      Civil(2024, 2, 10, 6, 59, 59, 999),
      Civil(2024, 2, 10, 7, 0, 0, 0),
      Civil(2024, 6, 1, 0, 0, 0, 0),
      Civil(2024, 7, 20, 23, 45, 30, 250),
      Civil(2024, 10, 20, 9, 0, 0, 0) }

\* The instants convertTimezone is asked about: those above, and the two
\* 01:30 readings of the morning the Eastern clocks go back.
ConvertInstants ==
    TzInstants \cup { Civil(2024, 10, 3, 5, 30, 0, 0),
                      Civil(2024, 10, 3, 6, 30, 0, 0) }

\* The <<startDate, endDate>> pairs findExactTransitionHour is called with.
Brackets ==
    { <<Civil(2024, 2, 10, 0, 0, 0, 0), Civil(2024, 2, 11, 0, 0, 0, 0)>>,
      <<Civil(2024, 2, 9, 0, 0, 0, 0), Civil(2024, 2, 12, 0, 0, 0, 0)>>,
      <<Civil(2024, 2, 10, 6, 0, 0, 0), Civil(2024, 2, 10, 7, 0, 0, 0)>>,
      <<Civil(2024, 2, 10, 6, 59, 59, 999), Civil(2024, 2, 10, 7, 0, 0, 0)>>,
      <<Civil(2024, 2, 10, 13, 27, 0, 0), Civil(2024, 2, 10, 13, 28, 0, 1)>>,
      <<Civil(2024, 2, 10, 13, 27, 31, 122), Civil(2024, 2, 11, 1, 0, 0, 777)>>,
      <<Civil(2024, 2, 9, 23, 59, 59, 990), Civil(2024, 2, 10, 0, 0, 0, 20)>>,
      <<Civil(2024, 2, 10, 7, 0, 0, 0), Civil(2024, 2, 10, 7, 0, 0, 0)>> }

\* The years findDSTTransitions is called with.
Years == {2023, 2024, 50}

(***************************************************************************)
(* The timezone calls.  getTimezoneOffsetMinutes and isInDST run in one    *)
(* step; the loops of findExactTransitionHour and findDSTTransitions go    *)
(* round one pass per step.                                                *)
(***************************************************************************)
TzReady == pc = "idle" /\ ret.kind = "none"

GetTimezoneOffsetMinutes(t) ==
    /\ TzReady
    /\ ret' = [kind |-> "number", op |-> "getTimezoneOffsetMinutes",
               date |-> t, value |-> getTimezoneOffsetMinutes(t, zone)]
    /\ calls' = 1
    /\ UNCHANGED <<host, calVars, zone, tzq, pc, lo, hi, startOffset, day,
                   previousOffset, foundTransitions, result>>

IsInDST(t) ==
    /\ TzReady
    /\ ret' = [kind |-> "boolean", op |-> "isInDST", date |-> t,
               value |-> isInDST(t, zone)]
    /\ calls' = IF getTimezoneOffsetMinutes(
                       NewDate(getFullYear(t), 0, 1, 0, 0, 0, 0), zone)
                     = getTimezoneOffsetMinutes(
                           NewDate(getFullYear(t), 6, 1, 0, 0, 0, 0), zone)
                THEN 2 ELSE 3
    /\ UNCHANGED <<host, calVars, zone, tzq, pc, lo, hi, startOffset, day,
                   previousOffset, foundTransitions, result>>

ConvertTimezone(t, fromTimezone, toTimezone) ==
    /\ TzReady
    /\ ret' = [kind |-> "converted", op |-> "convertTimezone", date |-> t,
               from |-> fromTimezone, to |-> toTimezone,
               value |-> convertTimezone(t, fromTimezone, toTimezone)]
    /\ UNCHANGED <<host, calVars, zone, tzq, pc, lo, hi, startOffset, day,
                   previousOffset, foundTransitions, result, calls>>

\* findExactTransitionHour(startDate, endDate, timezone), up to the loop.
FindExactTransitionHour(startDate, endDate) ==
    /\ TzReady
    /\ tzq' = [op |-> "findExactTransitionHour", startDate |-> startDate,
               endDate |-> endDate]
    /\ lo' = startDate
    /\ hi' = endDate
    /\ startOffset' = getTimezoneOffsetMinutes(startDate, zone)
    /\ calls' = 1
    /\ pc' = "search"
    /\ UNCHANGED <<host, calVars, zone, day, previousOffset, foundTransitions,
                   result, ret>>

\* One pass of the loop of findExactTransitionHour, called by the user or by
\* findDSTTransitions.
SearchStep ==
    /\ pc \in {"search", "scan.search"}
    /\ Apart(lo, hi)
    /\ lo' = Narrowed(lo, hi, startOffset, zone)[1]
    /\ hi' = Narrowed(lo, hi, startOffset, zone)[2]
    /\ calls' = calls + 1
    /\ UNCHANGED <<host, calVars, zone, tzq, pc, startOffset, day,
                   previousOffset, foundTransitions, result, ret>>

\* findExactTransitionHour returns to the user.
SearchReturn ==
    /\ pc = "search"
    /\ ~Apart(lo, hi)
    /\ ret' = [kind |-> "Date", op |-> "findExactTransitionHour",
               value |-> Found(lo, hi)]
    /\ pc' = "idle"
    /\ UNCHANGED <<host, calVars, zone, tzq, lo, hi, startOffset, day,
                   previousOffset, foundTransitions, result, calls>>

\* findDSTTransitions(year, timezone), up to the loop.
FindDSTTransitions(year) ==
    /\ TzReady
    /\ tzq' = [op |-> "findDSTTransitions", year |-> year]
    /\ result' = NoWindow
    /\ calls' = 2
    /\ foundTransitions' = 0
    /\ IF FastPath(year, zone)
       THEN /\ ret' = [kind |-> "window", op |-> "findDSTTransitions",
                       value |-> NoWindow]
            /\ UNCHANGED <<pc, day, previousOffset>>
       ELSE /\ pc' = "scan"
            /\ day' = 2
            /\ previousOffset' =
                   getTimezoneOffsetMinutes(DateUTC(year, 0, 1), zone)
            /\ UNCHANGED ret
    /\ UNCHANGED <<host, calVars, zone, lo, hi, startOffset>>

\* One pass of the loop of findDSTTransitions, up to the call of
\* findExactTransitionHour if the offset has changed.
ScanStep ==
    /\ pc = "scan"
    /\ Scanning(tzq.year, day)
    /\ LET currentDate == DateUTC(tzq.year, 0, day)
           currentOffset == getTimezoneOffsetMinutes(currentDate, zone)
       IN  IF currentOffset # previousOffset
           THEN /\ pc' = "scan.search"
                /\ lo' = DateUTC(tzq.year, 0, day - 1)
                /\ hi' = currentDate
                /\ startOffset' =
                       getTimezoneOffsetMinutes(DateUTC(tzq.year, 0, day - 1),
                                                zone)
                /\ calls' = calls + 2
                /\ UNCHANGED day
           ELSE /\ day' = day + 1
                /\ calls' = calls + 1
                /\ UNCHANGED <<pc, lo, hi, startOffset>>
    /\ UNCHANGED <<host, calVars, zone, tzq, previousOffset, foundTransitions,
                   result, ret>>

\* findExactTransitionHour returns to findDSTTransitions, which records the
\* transition and ends the pass.
ScanFound ==
    /\ pc = "scan.search"
    /\ ~Apart(lo, hi)
    /\ result' = Recorded(result, Found(lo, hi))
    /\ foundTransitions' = foundTransitions + 1
    /\ previousOffset' =
           getTimezoneOffsetMinutes(DateUTC(tzq.year, 0, day), zone)
    /\ day' = day + 1
    /\ pc' = "scan"
    /\ UNCHANGED <<host, calVars, zone, tzq, lo, hi, startOffset, calls, ret>>

\* findDSTTransitions returns once the loop is over.
ScanReturn ==
    /\ pc = "scan"
    /\ ~Scanning(tzq.year, day)
    /\ ret' = [kind |-> "window", op |-> "findDSTTransitions",
               value |-> result]
    /\ pc' = "idle"
    /\ UNCHANGED <<host, calVars, zone, tzq, lo, hi, startOffset, day,
                   previousOffset, foundTransitions, result, calls>>

\* The caller lets go of what the last timezone call returned.
TzForget ==
    /\ pc = "idle"
    /\ ret.kind # "none"
    /\ ret' = [kind |-> "none"]
    /\ tzq' = [op |-> "none"]
    /\ lo' = NaN
    /\ hi' = NaN
    /\ startOffset' = [num |-> 0, den |-> msPerMinute]
    /\ day' = 0
    /\ previousOffset' = [num |-> 0, den |-> msPerMinute]
    /\ foundTransitions' = 0
    /\ result' = NoWindow
    /\ calls' = 0
    /\ UNCHANGED <<host, calVars, zone, pc>>

InitTz ==
    /\ host \in HostZones
    /\ heap = NoObjects
    /\ made = NaN
    /\ res = [op |-> "none"]
    /\ dateRef = "self"
    /\ outRef = "out"
    /\ format = "YYYY-MM-DD"
    /\ alive = FALSE
    /\ origin = [op |-> "new"]
    /\ zone \in Zones
    /\ tzq = [op |-> "none"]
    /\ pc = "idle"
    /\ lo = NaN
    /\ hi = NaN
    /\ startOffset = [num |-> 0, den |-> msPerMinute]
    /\ day = 0
    /\ previousOffset = [num |-> 0, den |-> msPerMinute]
    /\ foundTransitions = 0
    /\ result = [start |-> NaN, end |-> NaN]
    /\ calls = 0
    /\ ret = [kind |-> "none"]

NextTz ==
    \/ \E t \in TzInstants : GetTimezoneOffsetMinutes(t)
    \/ \E t \in TzInstants : IsInDST(t)
    \/ \E t \in ConvertInstants, a \in {UTCZone, zone}, b \in {UTCZone, zone} :
           ConvertTimezone(t, a, b)
    \/ \E b \in Brackets : FindExactTransitionHour(b[1], b[2])
    \/ SearchStep
    \/ SearchReturn
    \/ \E y \in Years : FindDSTTransitions(y)
    \/ ScanStep
    \/ ScanFound
    \/ ScanReturn
    \/ TzForget

SpecTz == InitTz /\ [][NextTz]_vars

\* The loop test of findExactTransitionHour at a call in progress.  A pass of
\* the loop always counts a sample, so this is ENABLED <<SearchStep>>_vars.
Searching == pc \in {"search", "scan.search"} /\ Apart(lo, hi)

\* The same, with a call of findExactTransitionHour that has begun running
\* on: JavaScript runs a synchronous loop to its end.  The second conjunct
\* is WF_vars(SearchStep) written out, with Searching for the ENABLED.
SpecTzFair ==
    /\ SpecTz
    /\ ([]<>~Searching \/ []<><<SearchStep>>_vars)
    /\ WF_vars(SearchReturn)

(***************************************************************************)
(* The properties.                                                         *)
(***************************************************************************)
\* C1: add(amount, Months) and add(amount, Years) return a date in the month
\* exactly `amount` months (years) from the original month, on the day
\* min(original day, length of the destination month), leap years respected.
C1_MonthYearAddClamps ==
    (res.op = "add" /\ res.unit \in {"MONTHS", "YEARS"}) =>
        LET k == getFullYear(res.on) * 12 + getMonth(res.on)
                   + res.amount * (IF res.unit = "YEARS" THEN 12 ELSE 1)
            y == k \div 12
            m == k % 12
            leap == (y % 4 = 0) /\ ((y % 100 # 0) \/ (y % 400 = 0))
            length == CASE m \in {0, 2, 4, 6, 7, 9, 11} -> 31
                        [] m \in {3, 5, 8, 10} -> 30
                        [] OTHER -> IF leap THEN 29 ELSE 28
        IN  /\ res.out.kind = "box"
            /\ getFullYear(res.out.date) = y
            /\ getMonth(res.out.date) = m
            /\ getDate(res.out.date) = Min(getDate(res.on), length)

\* C2: in a zone whose offset changes at exactly one instant T, with
\* startDate < T <= endDate, findExactTransitionHour returns an instant r
\* that is not earlier than T and at most 60000 ms after it.
C2_TransitionWithinAMinute ==
    (/\ ret.kind = "Date"
     /\ Len(zone.trans) = 1
     /\ zone.trans[1].off # zone.base
     /\ TvLess(tzq.startDate, zone.trans[1].at)
     /\ TvLeq(zone.trans[1].at, tzq.endDate)) =>
        /\ TvLeq(zone.trans[1].at, ret.value)
        /\ TvLeq(ret.value, TvPlus(zone.trans[1].at, msPerMinute))

C2_Witness ==
    /\ ret.kind = "Date"
    /\ Len(zone.trans) = 1
    /\ TvLess(tzq.startDate, zone.trans[1].at)
    /\ TvLess(zone.trans[1].at, tzq.endDate)
    /\ calls > 10
    /\ TvLess(zone.trans[1].at, ret.value)
    /\ TvLess(ret.value, tzq.endDate)

\* C3: in a zone with a standard offset and a DST offset one hour ahead of
\* it, in either hemisphere, isInDST is true of an instant at the DST offset
\* and false of an instant at the standard offset.
C3_InDSTAtDstOffset ==
    (/\ ret.kind = "boolean"
     /\ zone \in {EasternZone, SydneyZone}) =>
        LET advanced == CHOOSE o \in ZoneOffsets(zone) :
                            \A p \in ZoneOffsets(zone) : p <= o
        IN  ret.value = (OffsetAt(zone, ret.date) = advanced)

\* C4 as stated: getTimezoneOffsetMinutes returns (UTC fields re-read minus
\* zone fields re-read) / 60000, a whole number of minutes, positive behind
\* UTC, negative ahead of it, and 0 for UTC, at every instant.
C4_OffsetWholeMinutes ==
    ret.kind = "number" =>
        LET o == OffsetAt(zone, ret.date)
        IN  /\ ret.value = Quotient(0 - o, msPerMinute)
            /\ IsWhole(ret.value)
            /\ (o < 0 => ret.value.num > 0)
            /\ (o > 0 => ret.value.num < 0)
            /\ (zone = UTCZone => ret.value.num = 0)

\* C4, amended: getTimezoneOffsetMinutes returns (UTC fields re-read minus
\* zone fields re-read) / 60000, which is minus the zone's offset east of UTC
\* in minutes: positive behind UTC, negative ahead of it, 0 for UTC, at
\* every instant; it is a whole number exactly when the zone's offset is a
\* whole number of minutes.
C4_OffsetExactMinutes ==
    ret.kind = "number" =>
        LET o == OffsetAt(zone, ret.date)
        IN  /\ ret.value = Quotient(0 - o, msPerMinute)
            /\ (IsWhole(ret.value) <=> o % msPerMinute = 0)
            /\ (o < 0 => ret.value.num > 0)
            /\ (o > 0 => ret.value.num < 0)
            /\ (zone = UTCZone => ret.value.num = 0)

C4_Witness ==
    /\ ret.kind = "number"
    /\ OffsetAt(zone, ret.date) = 0 - (44 * msPerMinute + 30 * msPerSecond)
    /\ ret.value.num = 44 * msPerMinute + 30 * msPerSecond
    /\ ~IsWhole(ret.value)

\* C5: in a zone whose offset is the same at every instant,
\* findDSTTransitions returns {start: null, end: null} for every year and
\* isInDST is false of every instant.
C5_NoDstZone ==
    Cardinality(ZoneOffsets(zone)) = 1 =>
        /\ (ret.kind = "window" => ret.value = NoWindow)
        /\ (ret.kind = "boolean" => ret.value = FALSE)

C5_Witness ==
    /\ zone = Zone(5 * msPerHour + 30 * msPerMinute, <<>>)
    /\ ret.kind = "window"
    /\ tzq.year = 2024
    /\ ret.value = NoWindow

\* C6: when findDSTTransitions(year, zone) returns both start and end, start
\* is strictly earlier than end and both lie in calendar year `year` (read in
\* UTC, as the search itself reads it), whatever the zone's offset changes.
C6_WindowOrdered ==
    (/\ ret.kind = "window"
     /\ ~IsNaN(ret.value.start)
     /\ ~IsNaN(ret.value.end)) =>
        /\ TvLess(ret.value.start, ret.value.end)
        /\ getUTCFullYear(ret.value.start) = tzq.year
        /\ getUTCFullYear(ret.value.end) = tzq.year

C6_Witness ==
    /\ ret.kind = "window"
    /\ zone \in ManyShiftZones
    /\ foundTransitions = 3
    /\ ~IsNaN(ret.value.start)
    /\ ~IsNaN(ret.value.end)
    /\ TvLess(ret.value.start, ret.value.end)

\* C7: add, subtract, diff, startOf and endOf throw the 'Unsupported time
\* unit' error for a unit outside the eight, return nothing, and leave the
\* receiver as it was.
C7_UnsupportedUnitThrows ==
    (res.op \in {"add", "subtract", "diff", "startOf", "endOf"}
       /\ res.unit \notin TimeUnits) =>
        /\ res.out = Thrown("Unsupported time unit: " \o res.unit)
        /\ This = res.on

C7_Witness ==
    /\ res.op \in {"add", "subtract", "diff", "startOf", "endOf"}
    /\ res.unit = "null"
    /\ res.out.kind = "error"

\* C8: a supplied value that is no point in time makes the constructor throw,
\* and a supplied value that is one yields exactly that instant.
C8_InvalidInputThrows ==
    (res.op = "new" /\ res.input.kind # "undefined") =>
        IF IsNaN(DateOfValue(res.input))
        THEN res.out.kind = "error"
        ELSE res.out.kind = "box" /\ res.out.date = DateOfValue(res.input)

\* C9: whatever is called on an instance, and whatever the caller does to the
\* Date it handed in or to a Date toDate gave it, the instance's instant is
\* the one it was built with.
C9_ReceiverUnchanged == alive => This = made

C9_Witness ==
    /\ res.op = "mutateOut"
    /\ heap["arg"] \in MutValues
    /\ heap["out"] \in MutValues
    /\ This = made

\* C10: for a positive n and a unit from Milliseconds to Weeks, add(n, unit)
\* followed by subtract(n, unit) returns the original instant.
C10_AddSubtractRoundTrip ==
    (res.op = "add.subtract" /\ res.amount > 0 /\ res.unit \in FixedUnits) =>
        res.out.kind = "box" /\ res.out.date = res.on

\* C11: for a unit from Milliseconds to Weeks, add(amount, unit) returns the
\* instant that lies amount times the unit's length after the original
\* (before it for a negative amount), a week being seven days.
C11_FixedDurationAdd ==
    (res.op = "add" /\ res.unit \in FixedUnits) =>
        LET days == CASE res.unit = "WEEKS" -> 7 * res.amount
                      [] res.unit = "DAYS" -> res.amount
                      [] OTHER -> 0
            time == CASE res.unit = "HOURS" -> res.amount * msPerHour
                      [] res.unit = "MINUTES" -> res.amount * msPerMinute
                      [] res.unit = "SECONDS" -> res.amount * msPerSecond
                      [] res.unit = "MILLISECONDS" -> res.amount
                      [] OTHER -> 0
        IN  /\ res.out.kind = "box"
            /\ res.out.date = MakeDate(res.on.d + days, res.on.ms + time)

\* C12: for a unit from Milliseconds to Weeks, diff(other, unit) is this
\* timestamp minus the other in milliseconds, over the unit's length in
\* milliseconds: negative exactly when this is earlier, and not rounded.
C12_DiffIsExactQuotient ==
    (res.op = "diff" /\ res.unit \in FixedUnits) =>
        LET length == CASE res.unit = "MILLISECONDS" -> 1
                        [] res.unit = "SECONDS" -> 1000
                        [] res.unit = "MINUTES" -> 60000
                        [] res.unit = "HOURS" -> 3600000
                        [] res.unit = "DAYS" -> 86400000
                        [] res.unit = "WEEKS" -> 604800000
        IN  /\ res.out.kind = "quotient"
            /\ res.out.per = length
            /\ res.out.diffMs
                   = MakeDate(res.on.d - res.other.d, res.on.ms - res.other.ms)
            /\ (res.out.diffMs.d < 0 <=> TvLess(res.on, res.other))

C12_Witness ==
    /\ res.op = "diff"
    /\ res.unit = "WEEKS"
    /\ res.out.kind = "quotient"
    /\ res.out.diffMs.d < 0
    /\ res.out.diffMs.d % 7 # 0
    /\ res.out.diffMs.ms # 0

\* C13: diff(other, Months) is (yearA - yearB) * 12 + (monthA - monthB) and
\* diff(other, Years) is yearA - yearB, whatever the day of the month and the
\* time of day of either date.
C13_DiffCountsCalendarMonths ==
    (res.op = "diff" /\ res.unit \in {"MONTHS", "YEARS"}) =>
        LET yearA == YearFromDay(LocalTime(res.on).d)
            yearB == YearFromDay(LocalTime(res.other).d)
            monthA == MonthFromDay(LocalTime(res.on).d)
            monthB == MonthFromDay(LocalTime(res.other).d)
        IN  /\ res.out.kind = "integer"
            /\ res.out.n = IF res.unit = "MONTHS"
                           THEN (yearA - yearB) * 12 + (monthA - monthB)
                           ELSE yearA - yearB

C13_Witness ==
    /\ res.op = "diff"
    /\ res.unit = "MONTHS"
    /\ res.out.kind = "integer"
    /\ res.out.n = 1
    /\ DateFromDay(LocalTime(res.on).d) < DateFromDay(LocalTime(res.other).d)

\* C14: startOf(Weeks) is 00:00:00.000 of the latest Monday not after the
\* instant, and endOf(Weeks) is 23:59:59.999 of the Sunday six days after
\* that Monday; a Sunday belongs to the week that began six days before it.
C14_WeekRunsMondayToSunday ==
    (res.op \in {"startOf", "endOf"} /\ res.unit = "WEEKS") =>
        LET was == LocalTime(res.on)
            now == LocalTime(res.out.date)
            back == (WeekDay(was.d) + 6) % 7
        IN  /\ res.out.kind = "box"
            /\ IF res.op = "startOf"
               THEN /\ WeekDay(now.d) = 1
                    /\ now.ms = 0
                    /\ now.d = was.d - back
               ELSE /\ WeekDay(now.d) = 0
                    /\ now.ms = msPerDay - 1
                    /\ now.d = was.d - back + 6

C14_Witness ==
    /\ res.op = "endOf"
    /\ res.unit = "WEEKS"
    /\ res.out.kind = "box"
    /\ WeekDay(LocalTime(res.on).d) = 0
    /\ LocalTime(res.out.date).d = LocalTime(res.on).d
    /\ host = EasternZone

\* C15: endOf(Months) is 23:59:59.999 of the last day (28, 29, 30 or 31, by
\* the leap-year rule) of the date's own month and year, and endOf(Years) is
\* December 31 23:59:59.999 of the date's own year.
C15_EndOfMonthAndYear ==
    (res.op = "endOf" /\ res.unit \in {"MONTHS", "YEARS"}) =>
        LET was == LocalTime(res.on)
            now == LocalTime(res.out.date)
            y == YearFromDay(was.d)
            m == IF res.unit = "YEARS" THEN 11 ELSE MonthFromDay(was.d)
            leap == (y % 4 = 0) /\ ((y % 100 # 0) \/ (y % 400 = 0))
            length == CASE m \in {0, 2, 4, 6, 7, 9, 11} -> 31
                        [] m \in {3, 5, 8, 10} -> 30
                        [] OTHER -> IF leap THEN 29 ELSE 28
        IN  /\ res.out.kind = "box"
            /\ YearFromDay(now.d) = y
            /\ MonthFromDay(now.d) = m
            /\ DateFromDay(now.d) = length
            /\ now.ms = msPerDay - 1

\* C16: convertTimezone(d, "UTC", toZone) returns an instant whose UTC civil
\* fields, year to second, are the wall-clock fields of instant d in toZone.
C16_ConvertFromUTC ==
    (ret.kind = "converted" /\ ret.from = UTCZone) =>
        Format(ret.value, UTCZone) = Format(ret.date, ret.to)

\* C17: isAfter(other, g) holds exactly when this date truncated to g is
\* strictly later than other truncated to g, and isBefore exactly when it is
\* strictly earlier; so two instants of one g-period are neither, the two are
\* never both true, and a.isAfter(b, g) equals b.isBefore(a, g).
C17_StrictComparisonAtGranularity ==
    (res.op \in {"isAfter", "isBefore"} /\ res.unit \in TimeUnits) =>
        LET a == truncateDate(res.on, res.unit)
            b == truncateDate(res.other, res.unit)
            after == isAfter(res.on, res.other, res.unit)
            before == isBefore(res.on, res.other, res.unit)
            wa == LocalTime(res.on)
            wb == LocalTime(res.other)
            sameDay == wa.d = wb.d
            same ==
                CASE res.unit = "MILLISECONDS" -> res.on = res.other
                  [] res.unit = "SECONDS" ->
                         res.on.d = res.other.d
                           /\ res.on.ms \div msPerSecond
                                = res.other.ms \div msPerSecond
                  [] res.unit = "MINUTES" ->
                         res.on.d = res.other.d
                           /\ res.on.ms \div msPerMinute
                                = res.other.ms \div msPerMinute
                  [] res.unit = "HOURS" ->
                         sameDay /\ HourFromTime(wa.ms) = HourFromTime(wb.ms)
                  [] res.unit = "DAYS" -> sameDay
                  [] res.unit = "WEEKS" ->
                         wa.d - ((WeekDay(wa.d) + 6) % 7)
                           = wb.d - ((WeekDay(wb.d) + 6) % 7)
                  [] res.unit = "MONTHS" ->
                         YearFromDay(wa.d) = YearFromDay(wb.d)
                           /\ MonthFromDay(wa.d) = MonthFromDay(wb.d)
                  [] res.unit = "YEARS" ->
                         YearFromDay(wa.d) = YearFromDay(wb.d)
        IN  /\ res.out = (IF res.op = "isAfter" THEN after ELSE before)
            /\ after = [kind |-> "boolean", b |-> TvLess(b, a)]
            /\ before = [kind |-> "boolean", b |-> TvLess(a, b)]
            /\ (same => ~after.b /\ ~before.b)
            /\ ~(after.b /\ before.b)
            /\ after = isBefore(res.other, res.on, res.unit)

C17_Witness ==
    /\ res.op = "isAfter"
    /\ res.unit = "SECONDS"
    /\ res.out = [kind |-> "boolean", b |-> FALSE]
    /\ TvLess(res.other, res.on)
    /\ isAfter(res.on, res.other, "MILLISECONDS").b

\* C18: throughout the search of findExactTransitionHour the lower bound is
\* strictly below the upper bound and has the baseline offset recorded at
\* startDate; if the offset at endDate differs from the baseline, so does the
\* offset at the upper bound; and a zone's single offset change in
\* (startDate, endDate] lies in (lower, upper].
C18_SearchBracketsTheChange ==
    pc \in {"search", "scan.search"} =>
        LET before == IF pc = "search" THEN tzq.startDate
                      ELSE DateUTC(tzq.year, 0, day - 1)
            after == IF pc = "search" THEN tzq.endDate
                     ELSE DateUTC(tzq.year, 0, day)
        IN  TvLess(before, after) =>
              /\ TvLess(lo, hi)
              /\ startOffset = getTimezoneOffsetMinutes(before, zone)
              /\ getTimezoneOffsetMinutes(lo, zone) = startOffset
              /\ (getTimezoneOffsetMinutes(after, zone) # startOffset
                    => getTimezoneOffsetMinutes(hi, zone) # startOffset)
              /\ (/\ Len(zone.trans) = 1
                  /\ zone.trans[1].off # zone.base
                  /\ TvLess(before, zone.trans[1].at)
                  /\ TvLeq(zone.trans[1].at, after))
                    => (TvLess(lo, zone.trans[1].at)
                          /\ TvLeq(zone.trans[1].at, hi))

C18_Witness ==
    /\ pc = "search"
    /\ calls > 6
    /\ Len(zone.trans) = 1
    /\ TvLess(tzq.startDate, lo)
    /\ TvLess(lo, zone.trans[1].at)
    /\ TvLeq(zone.trans[1].at, hi)
    /\ TvLess(hi, tzq.endDate)

\* C19 as stated: findExactTransitionHour, for startDate <= endDate and any
\* zone, takes at most ceil(log2((endDate - startDate) / 60000)) midpoint
\* samples (a negative number for a range of half a minute or less).
C19_SamplesWithinLog ==
    (tzq.op = "findExactTransitionHour" /\ ret.kind = "Date"
       /\ TvLeq(tzq.startDate, tzq.endDate)) =>
        LET range == TvDiff(tzq.endDate, tzq.startDate)
            fits(n) == IF n >= 0
                       THEN range <= msPerMinute * 2 ^ n
                       ELSE range <= msPerMinute
                              /\ range * 2 ^ (0 - n) <= msPerMinute
            log == CHOOSE n \in (0 - 15)..13 :
                       fits(n) /\ \A k \in (0 - 15)..13 : fits(k) => n <= k
        IN  calls - 1 <= log

\* C19, amended: findExactTransitionHour terminates for startDate <= endDate
\* and any zone: every pass of the loop strictly shrinks the gap, the loop
\* exits with a gap of at most 60000 ms, and the midpoint samples number at
\* most ceil(log2((endDate - startDate) / 60000)) when the range exceeds
\* 60000 ms and zero otherwise.
C19_SearchTerminates ==
    /\ [](tzq.op = "findExactTransitionHour"
            /\ TvLeq(tzq.startDate, tzq.endDate) =>
          LET range == TvDiff(tzq.endDate, tzq.startDate)
              log == CHOOSE n \in 0..13 :
                         /\ range <= msPerMinute * 2 ^ n
                         /\ \A k \in 0..13 :
                                range <= msPerMinute * 2 ^ k => n <= k
          IN  /\ calls - 1 <= log
              /\ ret.kind = "Date" => ~Apart(lo, hi))
    /\ [][(pc \in {"search", "scan.search"} /\ pc' = pc) =>
            /\ TvDiff(hi', lo') < TvDiff(hi, lo)
            /\ TvLeq(lo, lo')
            /\ TvLeq(hi', hi)]_vars
    /\ (pc = "search" ~> ret.kind = "Date")

C19_Witness ==
    /\ ret.kind = "Date"
    /\ TvDiff(tzq.endDate, tzq.startDate) = msPerDay
    /\ calls - 1 = 11
    /\ ~Apart(lo, hi)
    /\ Cardinality(ZoneOffsets(zone)) > 1

\* C20: with jan and july the offsets (UTC minus zone time) at the host's
\* local midnights of January 1 and July 1 of the instant's year, isInDST is
\* false when jan = july, and otherwise true exactly when the offset at the
\* instant is the larger of jan and july, whichever of the two that is.
C20_TrueAtLargerAnchor ==
    (ret.kind = "boolean" /\ ret.op = "isInDST") =>
        LET year == YearFromDay(LocalTime(ret.date).d)
            jan == 0 - OffsetAt(zone, UTC(TV(MakeDay(year, 0, 1), 0)))
            july == 0 - OffsetAt(zone, UTC(TV(MakeDay(year, 6, 1), 0)))
            at == 0 - OffsetAt(zone, ret.date)
        IN  IF jan = july
            THEN ret.value = FALSE
            ELSE ret.value = (at = (IF jan > july THEN jan ELSE july))

\* The July anchor is the larger one, and the instant has its offset.
C20_Witness ==
    /\ ret.kind = "boolean"
    /\ zone = SydneyZone
    /\ ret.date = Civil(2023, 6, 15, 12, 0, 0, 0)
    /\ OffsetAt(zone, UTC(TV(MakeDay(2023, 0, 1), 0))) = 11 * msPerHour
    /\ OffsetAt(zone, UTC(TV(MakeDay(2023, 6, 1), 0))) = 10 * msPerHour
    /\ ret.value = TRUE

\* C21: when the zone's offsets at January 1 and July 1 (UTC) of the year are
\* equal, findDSTTransitions returns {start: null, end: null} having taken
\* those two offset samples and no other: no day has been scanned and no
\* transition refined.
C21_EqualAnchorsReturnAtOnce ==
    (ret.kind = "window"
       /\ OffsetAt(zone, DateUTC(tzq.year, 0, 1))
             = OffsetAt(zone, DateUTC(tzq.year, 6, 1))) =>
        /\ ret.value = NoWindow
        /\ calls = 2
        /\ day = 0
        /\ foundTransitions = 0
        /\ IsNaN(lo) /\ IsNaN(hi)

\* A zone whose offset changes within the year and is back by July.
C21_Witness ==
    /\ ret.kind = "window"
    /\ tzq.year = 2024
    /\ Cardinality(ZoneOffsets(zone)) > 1
    /\ OffsetAt(zone, DateUTC(2024, 0, 1)) = OffsetAt(zone, DateUTC(2024, 6, 1))
    /\ ret.value = NoWindow
    /\ calls = 2

\* C22: once findDSTTransitions has set both start and end, the call takes
\* no further offset sample, neither of a day nor inside a refinement.
C22_StopsAfterTwo ==
    [][(pc \in {"scan", "scan.search"}
          /\ ~IsNaN(result.start) /\ ~IsNaN(result.end)) => calls' = calls]_vars

\* C23 as stated: a call of findDSTTransitions takes at most 366 offset
\* samples of its own.  Between passes the call has taken the two anchor
\* samples and one sample for each of the days 2 .. day - 1: `day` in all.
C23_AtMost366Samples ==
    (tzq.op = "findDSTTransitions" /\ pc = "scan") => day <= 366

\* C23, amended: a call of findDSTTransitions takes at most 367 offset
\* samples of its own, and at most 366 in a year that is not a leap year;
\* until a change is found these are all the samples of the call; and every
\* day sampled lies in the requested year.
C23_AtMost367Samples ==
    /\ [](tzq.op = "findDSTTransitions" /\ pc \in {"scan", "scan.search"} =>
            LET own == IF pc = "scan" THEN day ELSE day + 1
            IN  /\ own <= 367
                /\ (~InLeapYear(tzq.year) => own <= 366)
                /\ (pc = "scan" /\ foundTransitions = 0 => calls = own)
                /\ (pc = "scan.search" =>
                       /\ getUTCFullYear(lo) = tzq.year
                       /\ getUTCFullYear(hi) = tzq.year))
    /\ [][(pc = "scan" /\ calls' > calls) =>
            getUTCFullYear(DateUTC(tzq.year, 0, day)) = tzq.year]_vars

\* The return of a scan of a leap year.
C23_Witness ==
    /\ ret.kind = "window"
    /\ tzq.year = 2024
    /\ day = 367
    /\ ~IsNaN(ret.value.start)

\* C24: if the zone's offset changes at some instant of calendar year `year`
\* (UTC), findDSTTransitions(year, zone) returns a start that is not null.
C24_ChangeInYearIsFound ==
    (ret.kind = "window"
       /\ \E i \in 1..Len(zone.trans) :
              /\ getUTCFullYear(zone.trans[i].at) = tzq.year
              /\ zone.trans[i].off #
                     (IF i = 1 THEN zone.base ELSE zone.trans[i - 1].off)) =>
        ~IsNaN(ret.value.start)

\* C25: for startDate <= endDate and any zone, findExactTransitionHour
\* returns an instant of [startDate, endDate]; it returns endDate when the
\* range is at most 60000 ms and when the zone's offset does not change in
\* the range; and the upper bound moves only to a sampled midpoint whose
\* offset differs from the baseline, so it stays at endDate when none does.
C25_ResultWithinBracket ==
    /\ []((ret.kind = "Date" /\ TvLeq(tzq.startDate, tzq.endDate)) =>
            /\ TvLeq(tzq.startDate, ret.value)
            /\ TvLeq(ret.value, tzq.endDate)
            /\ ret.value = hi
            /\ (TvDiff(tzq.endDate, tzq.startDate) <= msPerMinute
                  => ret.value = tzq.endDate)
            /\ ((\A i \in 1..Len(zone.trans) :
                    \/ TvLeq(zone.trans[i].at, tzq.startDate)
                    \/ TvLess(tzq.endDate, zone.trans[i].at))
                  => ret.value = tzq.endDate))
    /\ [](pc = "search" /\ calls = 1 => hi = tzq.endDate)
    /\ [][(pc = "search" /\ hi' # hi) =>
            /\ hi' = Mid(lo, hi)
            /\ 0 - OffsetAt(zone, hi') # startOffset.num]_vars

\* A zone with several offset changes inside the range.
C25_Witness ==
    /\ ret.kind = "Date"
    /\ TvLess(tzq.startDate, ret.value)
    /\ TvLess(ret.value, tzq.endDate)
    /\ Cardinality({i \in 1..Len(zone.trans) :
                       /\ TvLess(tzq.startDate, zone.trans[i].at)
                       /\ TvLeq(zone.trans[i].at, tzq.endDate)}) > 1

\* C26: for Months and Years, add(n, unit) followed by subtract(n, unit)
\* returns the original instant when the original day of the month is at most
\* the length of the destination month (so whenever it is at most 28), and an
\* instant on an earlier day of the month when it is not.
C26_MonthYearRoundTrip ==
    (res.op = "add.subtract" /\ res.unit \in {"MONTHS", "YEARS"}) =>
        LET k == getFullYear(res.on) * 12 + getMonth(res.on)
                   + res.amount * (IF res.unit = "YEARS" THEN 12 ELSE 1)
            y == k \div 12
            m == k % 12
            length == MonthStart(y, m + 1) - MonthStart(y, m)
        IN  /\ res.out.kind = "box"
            /\ IF getDate(res.on) <= length
               THEN res.out.date = res.on
               ELSE getDate(res.out.date) < getDate(res.on)

\* C27: every instance holds an instant a Date can hold: the receiver at
\* every point of a chain of add, subtract, startOf, endOf and withFormat
\* calls, and every instance a constructor or such a call returns; isValid()
\* is true of it; and a call whose result would lie beyond the last or before
\* the first instant of a Date throws.
C27_InstancesAreValid ==
    /\ alive => This = TimeClip(This) /\ ~IsNaN(This)
    /\ res.op \in {"new", "add", "subtract", "startOf", "endOf", "withFormat"} =>
          /\ res.out.kind \in {"box", "error"}
          /\ res.out.kind = "box" =>
                ~IsNaN(res.out.date) /\ res.out.date = TimeClip(res.out.date)
    /\ res.op = "isValid" => res.out = [kind |-> "boolean", b |-> TRUE]
    /\ res.op \in {"add", "subtract"} =>
          LET n == IF res.op = "add" THEN res.amount ELSE 0 - res.amount
              year == getFullYear(res.on) + n
          IN  /\ (res.unit = "YEARS" /\ (year > 275760 \/ year < 0 - 271821))
                    => res.out.kind = "error"
              /\ (res.unit = "DAYS"
                    /\ IsNaN(TimeClip(TV(res.on.d + n, res.on.ms))))
                    => res.out.kind = "error"

\* Two calls down a chain, a valid receiver and an add that throws.
C27_Witness ==
    /\ alive
    /\ Depth = 2
    /\ ~IsNaN(This)
    /\ res.op = "add"
    /\ res.unit = "YEARS"
    /\ res.out.kind = "error"

\* C28: convertTimezone(d, Z, Z) returns a Date with the civil fields of d,
\* to the second, whichever way the fields of the two Dates are read: both in
\* UTC, both in Z, both on the host's clock, or the result in UTC against d
\* in Z.
C28_SameZoneIsIdentity ==
    (ret.kind = "converted" /\ ret.from = ret.to) =>
        \/ Format(ret.value, UTCZone) = Format(ret.date, UTCZone)
        \/ Format(ret.value, ret.to) = Format(ret.date, ret.to)
        \/ Format(ret.value, host) = Format(ret.date, host)
        \/ Format(ret.value, UTCZone) = Format(ret.date, ret.to)

\* C29: for a recognised unit, startOf(unit) is not later and endOf(unit)
\* not earlier than the date, both lie in the date's own period of the unit
\* (the same second, minute, hour, day, Monday-to-Sunday week, month or year
\* on the host's clock), and endOf(Milliseconds) is the date itself.
C29_DateWithinItsPeriod ==
    (res.op \in {"startOf", "endOf"} /\ res.unit \in TimeUnits) =>
        LET t == res.on
            r == res.out.date
            monday(x) == LocalTime(x).d - ((getDay(x) + 6) % 7)
            rank == CASE res.unit = "MILLISECONDS" -> 7
                      [] res.unit = "SECONDS" -> 6
                      [] res.unit = "MINUTES" -> 5
                      [] res.unit = "HOURS" -> 4
                      [] res.unit \in {"DAYS", "WEEKS"} -> 3
                      [] res.unit = "MONTHS" -> 2
                      [] res.unit = "YEARS" -> 1
        IN  /\ res.out.kind = "box"
            /\ IF res.op = "startOf" THEN TvLeq(r, t) ELSE TvLeq(t, r)
            /\ (res.op = "endOf" /\ res.unit = "MILLISECONDS") => r = t
            /\ IF res.unit = "WEEKS" THEN monday(r) = monday(t)
               ELSE /\ getFullYear(r) = getFullYear(t)
                    /\ rank >= 2 => getMonth(r) = getMonth(t)
                    /\ rank >= 3 => getDate(r) = getDate(t)
                    /\ rank >= 4 => getHours(r) = getHours(t)
                    /\ rank >= 5 => getMinutes(r) = getMinutes(t)
                    /\ rank >= 6 => getSeconds(r) = getSeconds(t)
                    /\ rank >= 7 => r = t

\* C30: fromNow(reference) is "just now" only when the date and the
\* reference are less than one second apart; otherwise it is "n unit ago"
\* for a date before the reference and "in n unit" for one after it, with
\* n >= 1 and the unit in the plural exactly when n is not 1.
C30_JustNowOnlyUnderASecond ==
    res.op = "fromNow" =>
        LET apart == DurAbs(Dur(res.other, res.on))
            under == apart.d = 0 /\ apart.ms < msPerSecond
        IN  IF under
            THEN res.out.text = "just now"
            ELSE /\ res.out.text =
                      (IF TvLess(res.on, res.other) THEN "n unit ago"
                       ELSE "in n unit")
                 /\ res.out.n >= 1
                 /\ res.out.plural = (res.out.n # 1)

====
